---- MODULE Spec2Model ----
(***************************************************************************)
(* Model of port_emulator.py: the CAN29 byte-stuffing codec                *)
(* (encode_can29_message, Can29SerialReceiverProtocol.__next__), the       *)
(* serial reader thread that feeds the input buffer (data_received), the   *)
(* forwarder loop of start_can_forwarder with its enumeration workaround,  *)
(* CANCommunication.send_raw / send_message, and the monitor callback that *)
(* relays backend messages to the serial port (m_Monitor_MonitorASCII,     *)
(* msg_cb_fun).                                                            *)
(*                                                                         *)
(* Bytes are integers 0..255, byte strings are sequences.  Three threads   *)
(* run: the forwarder (main thread), the serial reader thread, and the     *)
(* backend's monitor thread.  They interleave at lock operations and at    *)
(* calls into the serial port and the backend.                             *)
(***************************************************************************)
EXTENDS Integers, Sequences, FiniteSets, TLC

(***************************************************************************)
(* Protocol constants.                                                     *)
(***************************************************************************)
DLE == 16
STX == 2
ETX == 3
CR == 13
FIND_CLASS == 21
FIND_NUMBER == 160
FIND_SUBNR == 254
REPLY_LENGTH == 4
REPLY_LAST == 9
REPLY_MORE == 5
REPLY_TAIL == 3

(***************************************************************************)
(* Bounds of the model.                                                    *)
(***************************************************************************)
\* longest arbitrary input buffer of the codec specification
MaxBufLen == 5
\* longest message whose encoding is put in a codec buffer
MaxMsgLen == 2
\* frames (or raw pieces) on the wire in the forwarder specification
MaxFrames == 2
\* largest number of bytes the serial reader hands over in one data_received
MaxChunk == 2
\* monitor events the backend raises
MaxEvents == 1

(***************************************************************************)
(* Sequence helpers.                                                       *)
(***************************************************************************)
SeqsUpTo(S, n) == UNION {[1..k -> S] : k \in 0..n}

Drop(s, n) == SubSeq(s, n + 1, Len(s))

Take(s, n) == SubSeq(s, 1, n)

(***************************************************************************)
(* encode_can29_message: DLE STX, the bytes with 0x10 and 0x0d preceded by *)
(* an extra 0x10, DLE ETX.                                                 *)
(***************************************************************************)
\* a faulty encoder: the extra 0x10 is put after the byte, not before it
RECURSIVE escape_bytes_marker_after(_)
escape_bytes_marker_after(raw_message) ==
    IF raw_message = <<>> THEN <<>>
    ELSE LET c == Head(raw_message) IN
         <<c>> \o (IF c \in {DLE, CR} THEN <<DLE>> ELSE <<>>)
            \o escape_bytes_marker_after(Tail(raw_message))

\* a faulty encoder: the literal 0x10 is not stuffed
RECURSIVE escape_bytes_no_dle(_)
escape_bytes_no_dle(raw_message) ==
    IF raw_message = <<>> THEN <<>>
    ELSE LET c == Head(raw_message) IN
         (IF c = CR THEN <<DLE>> ELSE <<>>) \o <<c>>
            \o escape_bytes_no_dle(Tail(raw_message))

RECURSIVE escape_bytes(_)
escape_bytes(raw_message) ==
    IF raw_message = <<>> THEN <<>>
    ELSE LET c == Head(raw_message) IN
         (IF c \in {DLE, CR} THEN <<DLE>> ELSE <<>>) \o <<c>>
            \o escape_bytes(Tail(raw_message))

encode_can29_message(raw_message) ==
    <<DLE, STX>> \o escape_bytes(raw_message) \o <<DLE, ETX>>

(***************************************************************************)
(* One pass of the for loop of __next__ over the buffer, made while the    *)
(* lock is held.  message_data is None or a byte string.  The outcome is   *)
(*   "msg"   - return message_data (line 148), buffer cut after the ETX;   *)
(*   "error" - RuntimeError naming byte (line 155); a DLE ETX met with no  *)
(*             message in progress has cut the buffer (line 145) and then  *)
(*             falls through to the raise, since 0x03 is not in            *)
(*             [0x0d, 0x10];                                               *)
(*   "stop"  - buffer exhausted, message_data is None: StopIteration;      *)
(*   "retry" - buffer exhausted, message_data is not None: the while True  *)
(*             loop of __next__ goes round again.                          *)
(***************************************************************************)
None == [isNone |-> TRUE, data |-> <<>>]

Some(d) == [isNone |-> FALSE, data |-> d]

AppendIfSome(md, c) == IF md.isNone THEN md ELSE Some(Append(md.data, c))

Outcome(k, m, b, buf) == [kind |-> k, msg |-> m, byte |-> b, buffer |-> buf]

\* a faulty cut that keeps the ETX byte in the buffer
CutAfterKeepsEtx(buf, i) == Drop(buf, i - 1)

\* a faulty cut that also drops the byte after the ETX
CutAfterOneMore(buf, i) == Drop(buf, i + 1)

\* the buffer that line 145 leaves: the elements after 1-based index i
CutAfter(buf, i) == Drop(buf, i)

\* a faulty raise: the unexpected byte is swallowed and the pass ends as if
\* the buffer held nothing
framing_error_swallowed(c, buf) == Outcome("stop", <<>>, 0, buf)

\* line 155: raise RuntimeError naming c
framing_error(c, buf) == Outcome("error", <<>>, c, buf)

\* a faulty scan in which a DLE STX met inside a frame keeps the payload
\* gathered so far
RECURSIVE ScanFrom_keeps_payload(_, _, _, _)
ScanFrom_keeps_payload(buf, i, ten_found, message_data) ==
    IF i > Len(buf)
    THEN Outcome(IF message_data.isNone THEN "stop" ELSE "retry", <<>>, 0, buf)
    ELSE LET c == buf[i] IN
         IF ten_found
         THEN IF c = STX
              THEN ScanFrom_keeps_payload(buf, i + 1, FALSE,
                       IF message_data.isNone THEN Some(<<>>) ELSE message_data)
              ELSE IF c = ETX
              THEN IF ~message_data.isNone
                   THEN Outcome("msg", message_data.data, 0, CutAfter(buf, i))
                   ELSE framing_error(c, CutAfter(buf, i))
              ELSE IF c \in {CR, DLE}
              THEN ScanFrom_keeps_payload(buf, i + 1, FALSE,
                                          AppendIfSome(message_data, c))
              ELSE framing_error(c, buf)
         ELSE IF c = DLE
              THEN ScanFrom_keeps_payload(buf, i + 1, TRUE, message_data)
              ELSE ScanFrom_keeps_payload(buf, i + 1, FALSE,
                                          AppendIfSome(message_data, c))

RECURSIVE ScanFrom(_, _, _, _)
ScanFrom(buf, i, ten_found, message_data) ==
    IF i > Len(buf)
    THEN Outcome(IF message_data.isNone THEN "stop" ELSE "retry", <<>>, 0, buf)
    ELSE LET c == buf[i] IN
         IF ten_found
         THEN IF c = STX
              THEN ScanFrom(buf, i + 1, FALSE, Some(<<>>))
              ELSE IF c = ETX
              THEN IF ~message_data.isNone
                   THEN Outcome("msg", message_data.data, 0, CutAfter(buf, i))
                   ELSE framing_error(c, CutAfter(buf, i))
              ELSE IF c \in {CR, DLE}
              THEN ScanFrom(buf, i + 1, FALSE, AppendIfSome(message_data, c))
              ELSE framing_error(c, buf)
         ELSE IF c = DLE
              THEN ScanFrom(buf, i + 1, TRUE, message_data)
              ELSE ScanFrom(buf, i + 1, FALSE, AppendIfSome(message_data, c))

Scan(buf) == ScanFrom(buf, 1, FALSE, None)

(***************************************************************************)
(* The monitor text of CZCANSRVLib.  A text is the sequence of its parts   *)
(* between the '<-' marks; a part is the sequence of its blank-separated   *)
(* tokens; a token is a sequence of hexadecimal digits.                    *)
(***************************************************************************)
RECURSIVE int16(_)
int16(token) ==
    IF token = <<>> THEN 0
    ELSE int16(Take(token, Len(token) - 1)) * 16 + token[Len(token)]

\* '<-' in text
has_arrow(text) == Len(text) >= 2

\* bytearray(map(lambda _: int(_, 16), text.split('<-')[-1].split()))
parse_monitor_text(text) ==
    LET part == text[Len(text)] IN [k \in 1..Len(part) |-> int16(part[k])]

(***************************************************************************)
(* The interception test of line 190, with Python's short-circuit          *)
(* evaluation: an index past the end of raw_message raises IndexError.     *)
(***************************************************************************)
\* a faulty test that reads proc_id where sub_nr is meant
intercept_reads_proc_id(simulated, raw_message) ==
    IF ~simulated THEN "forward"
    ELSE IF Len(raw_message) < 4 THEN "IndexError"
    ELSE IF raw_message[4] # FIND_CLASS THEN "forward"
    ELSE IF Len(raw_message) < 5 THEN "IndexError"
    ELSE IF raw_message[5] # FIND_NUMBER THEN "forward"
    ELSE IF Len(raw_message) < 6 THEN "IndexError"
    ELSE IF raw_message[6] # FIND_SUBNR THEN "forward"
    ELSE "fake"

intercept(simulated, raw_message) ==
    IF ~simulated THEN "forward"
    ELSE IF Len(raw_message) < 4 THEN "IndexError"
    ELSE IF raw_message[4] # FIND_CLASS THEN "forward"
    ELSE IF Len(raw_message) < 5 THEN "IndexError"
    ELSE IF raw_message[5] # FIND_NUMBER THEN "forward"
    ELSE IF Len(raw_message) < 7 THEN "IndexError"
    ELSE IF raw_message[7] # FIND_SUBNR THEN "forward"
    ELSE "fake"

\* a faulty reply whose test for the last device is off by one
enum_reply_never_last(raw_message, i, dev_ids) ==
    << raw_message[2], raw_message[1], REPLY_LENGTH,
       IF i = Len(dev_ids) THEN REPLY_LAST ELSE REPLY_MORE,
       raw_message[5], raw_message[6], raw_message[7],
       dev_ids[i + 1], REPLY_TAIL >>

\* the reply built at lines 196-206 for the device at 0-based position i
enum_reply(raw_message, i, dev_ids) ==
    << raw_message[2], raw_message[1], REPLY_LENGTH,
       IF i + 1 = Len(dev_ids) THEN REPLY_LAST ELSE REPLY_MORE,
       raw_message[5], raw_message[6], raw_message[7],
       dev_ids[i + 1], REPLY_TAIL >>

(***************************************************************************)
(* CANCommunication.send_message: the arguments handed to                  *)
(* self._d.SendMessage.  A non-empty extra_data becomes an Array[Char] of  *)
(* its byte values, an empty or missing one the empty string.              *)
(***************************************************************************)
NoData == [isNone |-> TRUE, data |-> <<>>]

send_message(destination_addr, source_addr, cmd_class, cmd_number, sub_nr, proc_id, extra_data) ==
    [ type     |-> "CAN29",
      dest     |-> destination_addr,
      src      |-> source_addr,
      class    |-> cmd_class,
      number   |-> cmd_number,
      sub_nr   |-> sub_nr,
      proc_id  |-> proc_id,
      data     |-> IF extra_data.isNone \/ extra_data.data = <<>>
                   THEN <<>> ELSE extra_data.data ]

\* a faulty check that takes the seven header bytes off the size
length_ok_header7(bytes) == bytes[3] = Len(bytes) - 7

\* a check that is not made
length_ok_skipped(bytes) == TRUE

\* the assertion of line 88
length_ok(bytes) == bytes[3] = Len(bytes) - 5

\* a faulty send_raw that hands proc_id and sub_nr over in each other's place
send_raw_swapped(bytes) ==
    IF Len(bytes) < 3 THEN [status |-> "IndexError"]
    ELSE IF ~length_ok(bytes) THEN [status |-> "AssertionError"]
    ELSE IF Len(bytes) < 7 THEN [status |-> "IndexError"]
    ELSE [ status |-> "sent",
           call   |-> send_message(bytes[1], bytes[2], bytes[4], bytes[5],
                                   bytes[6], bytes[7],
                                   IF Len(bytes) > 6 THEN Some(Drop(bytes, 7))
                                                     ELSE NoData) ]

(***************************************************************************)
(* CANCommunication.send_raw: the outcome is the exception raised, or the  *)
(* SendMessage call made.                                                  *)
(***************************************************************************)
send_raw(bytes) ==
    IF Len(bytes) < 3 THEN [status |-> "IndexError"]
    ELSE IF ~length_ok(bytes) THEN [status |-> "AssertionError"]
    ELSE IF Len(bytes) < 7 THEN [status |-> "IndexError"]
    ELSE [ status |-> "sent",
           call   |-> send_message(bytes[1], bytes[2], bytes[4], bytes[5],
                                   bytes[7], bytes[6],
                                   IF Len(bytes) > 6 THEN Some(Drop(bytes, 7))
                                                     ELSE NoData) ]

(***************************************************************************)
(* State.                                                                  *)
(***************************************************************************)
VARIABLES
    input_buffer,   \* Can29SerialReceiverProtocol._input_buffer
    lock,           \* holder of Can29SerialReceiverProtocol._lock, or "free"
    tx_msgs,        \* the messages the client at the far end has framed
    stream,         \* the bytes the serial line carries to the bridge
    rx_pos,         \* how many of them the reader thread has read
    rpc,            \* reader thread: "read" or "locked" (inside data_received)
    rdata,          \* the data argument of the data_received in progress
    fpc,            \* forwarder: "next", "scan", "handle", "enum", "sleep", "crashed"
    raw_message,    \* the message the forwarder loop body works on
    enum_i,         \* index of the enumeration loop of lines 195-209
    error,          \* the exception that ended start_can_forwarder, or "none"
    last,           \* how the latest pass of __next__ ended: kind and byte
    returned,       \* the messages __next__ has returned, in order
    Simulated,      \* zeiss_can_port._d.Simulated
    device_ids,     \* CANCommunication._device_ids
    sent,           \* the SendMessage calls made on the backend, in order
    serial_out,     \* the rt.write calls made, in order: writer and bytes
    cpc,            \* monitor thread: "idle", "write", "lock", "flush"
    cb_msg,         \* raw_message of the msg_cb_fun call in progress
    events          \* monitor events raised so far

vars == << input_buffer, lock, tx_msgs, stream, rx_pos, rpc, rdata, fpc, raw_message,
           enum_i, error, last, returned, Simulated, device_ids, sent,
           serial_out, cpc, cb_msg, events >>

reader_vars == << tx_msgs, stream, rx_pos, rpc, rdata >>

fwd_vars == << fpc, raw_message, enum_i, error, last, returned >>

backend_vars == << Simulated, device_ids >>

cb_vars == << cpc, cb_msg, events >>

\* the process is alive until an exception leaves start_can_forwarder
Alive == fpc # "crashed"

(***************************************************************************)
(* Serial reader thread: ReaderThread reads what the port has and calls    *)
(* data_received, which extends the buffer under the lock.                 *)
(***************************************************************************)
data_received_enter ==
    /\ Alive
    /\ rpc = "read"
    /\ lock = "free"
    /\ \E n \in 1..MaxChunk :
          /\ rx_pos + n <= Len(stream)
          /\ rdata' = SubSeq(stream, rx_pos + 1, rx_pos + n)
          /\ rx_pos' = rx_pos + n
    /\ lock' = "reader"
    /\ rpc' = "locked"
    /\ UNCHANGED << input_buffer, tx_msgs, stream, fwd_vars, backend_vars,
                    sent, serial_out, cb_vars >>

data_received_extend ==
    /\ rpc = "locked"
    /\ input_buffer' = input_buffer \o rdata
    /\ rdata' = <<>>
    /\ lock' = "free"
    /\ rpc' = "read"
    /\ UNCHANGED << tx_msgs, stream, rx_pos, fwd_vars, backend_vars, sent,
                    serial_out, cb_vars >>

(***************************************************************************)
(* Can29SerialReceiverProtocol.__next__: take the lock, scan, and leave    *)
(* the with block by return, by exception or at the end of the for loop.   *)
(***************************************************************************)
next_enter ==
    /\ fpc = "next"
    /\ lock = "free"
    /\ lock' = "forwarder"
    /\ fpc' = "scan"
    /\ UNCHANGED << input_buffer, reader_vars, raw_message, enum_i, error,
                    last, returned, backend_vars, sent, serial_out, cb_vars >>

\* a faulty __next__ that returns a message without leaving the with block
next_scan_keeps_lock ==
    /\ fpc = "scan"
    /\ LET r == Scan(input_buffer) IN
          /\ input_buffer' = r.buffer
          /\ last' = [kind |-> r.kind, byte |-> r.byte]
          /\ fpc' = CASE r.kind = "msg"   -> "handle"
                      [] r.kind = "stop"  -> "sleep"
                      [] r.kind = "retry" -> "next"
                      [] OTHER            -> "crashed"
          /\ raw_message' = IF r.kind = "msg" THEN r.msg ELSE raw_message
          /\ returned' = IF r.kind = "msg" THEN Append(returned, r.msg)
                                           ELSE returned
          /\ error' = IF r.kind = "error" THEN "RuntimeError" ELSE error
          /\ lock' = IF r.kind = "msg" THEN "forwarder" ELSE "free"
    /\ UNCHANGED << reader_vars, enum_i, backend_vars, sent, serial_out,
                    cb_vars >>

next_scan ==
    /\ fpc = "scan"
    /\ LET r == Scan(input_buffer) IN
          /\ input_buffer' = r.buffer
          /\ last' = [kind |-> r.kind, byte |-> r.byte]
          /\ fpc' = CASE r.kind = "msg"   -> "handle"
                      [] r.kind = "stop"  -> "sleep"
                      [] r.kind = "retry" -> "next"
                      [] OTHER            -> "crashed"
          /\ raw_message' = IF r.kind = "msg" THEN r.msg ELSE raw_message
          /\ returned' = IF r.kind = "msg" THEN Append(returned, r.msg)
                                           ELSE returned
          /\ error' = IF r.kind = "error" THEN "RuntimeError" ELSE error
    /\ lock' = "free"
    /\ UNCHANGED << reader_vars, enum_i, backend_vars, sent, serial_out,
                    cb_vars >>

(***************************************************************************)
(* start_can_forwarder, lines 181-216.                                     *)
(***************************************************************************)
\* lines 184-214 up to the first rt.write: the interception test, and for
\* a message that is not intercepted the whole of send_raw
forward_message ==
    /\ fpc = "handle"
    /\ LET how == intercept(Simulated, raw_message) IN
          CASE how = "IndexError" ->
                  /\ fpc' = "crashed"
                  /\ error' = "IndexError"
                  /\ UNCHANGED << enum_i, sent >>
            [] how = "fake" ->
                  /\ fpc' = IF device_ids = <<>> THEN "next" ELSE "enum"
                  /\ enum_i' = 0
                  /\ UNCHANGED << error, sent >>
            [] OTHER ->
                  LET r == send_raw(raw_message) IN
                  IF r.status = "sent"
                  THEN /\ sent' = Append(sent, r.call)
                       /\ fpc' = "next"
                       /\ UNCHANGED << enum_i, error >>
                  ELSE /\ fpc' = "crashed"
                       /\ error' = r.status
                       /\ UNCHANGED << enum_i, sent >>
    /\ UNCHANGED << input_buffer, lock, reader_vars, raw_message, last,
                    returned, backend_vars, serial_out, cb_vars >>

\* one round of the loop of lines 195-209; after the last one, line 212
enum_write ==
    /\ fpc = "enum"
    /\ enum_i < Len(device_ids)
    /\ serial_out' = Append(serial_out,
           [by |-> "forwarder",
            data |-> encode_can29_message(enum_reply(raw_message, enum_i, device_ids))])
    /\ IF enum_i + 1 = Len(device_ids)
       THEN fpc' = "next" /\ enum_i' = 0
       ELSE fpc' = "enum" /\ enum_i' = enum_i + 1
    /\ UNCHANGED << input_buffer, lock, reader_vars, raw_message, error, last,
                    returned, backend_vars, sent, cb_vars >>

\* StopIteration ends the for loop; line 216; the while loop calls __next__
idle_sleep ==
    /\ fpc = "sleep"
    /\ fpc' = "next"
    /\ UNCHANGED << input_buffer, lock, reader_vars, raw_message, enum_i,
                    error, last, returned, backend_vars, sent, serial_out,
                    cb_vars >>

(***************************************************************************)
(* Monitor thread: CANCommunication.m_Monitor_MonitorASCII and msg_cb_fun. *)
(***************************************************************************)
Digits(a, b) == << a, b >>

MonitorTexts ==
    { << << >> >>,
      << << >>, << Digits(4, 1) >> >>,
      << << >>, << Digits(1, 0), << 13 >>, Digits(0, 2) >> >>,
      << << Digits(1, 11) >>, << >> >> }

m_Monitor_MonitorASCII ==
    /\ Alive
    /\ cpc = "idle"
    /\ events < MaxEvents
    /\ events' = events + 1
    /\ \E err_state \in BOOLEAN, text \in MonitorTexts :
          IF ~err_state /\ has_arrow(text)
          THEN /\ cb_msg' = parse_monitor_text(text)
               /\ cpc' = "write"
          ELSE UNCHANGED << cb_msg, cpc >>
    /\ UNCHANGED << input_buffer, lock, reader_vars, fwd_vars, backend_vars,
                    sent, serial_out >>

\* line 174: the argument of rt.write, bytes(raw_message)
cb_written(raw) == raw

msg_cb_write ==
    /\ Alive
    /\ cpc = "write"
    /\ serial_out' = Append(serial_out,
                            [by |-> "callback", data |-> cb_written(cb_msg)])
    /\ cpc' = "lock"
    /\ UNCHANGED << input_buffer, lock, reader_vars, fwd_vars, backend_vars,
                    sent, cb_msg, events >>

\* line 175
msg_cb_lock ==
    /\ Alive
    /\ cpc = "lock"
    /\ lock = "free"
    /\ lock' = "callback"
    /\ cpc' = "flush"
    /\ UNCHANGED << input_buffer, reader_vars, fwd_vars, backend_vars, sent,
                    serial_out, cb_msg, events >>

\* line 176 and the end of the with block
msg_cb_flush ==
    /\ cpc = "flush"
    /\ lock' = "free"
    /\ cpc' = "idle"
    /\ UNCHANGED << input_buffer, reader_vars, fwd_vars, backend_vars, sent,
                    serial_out, cb_msg, events >>

(***************************************************************************)
(* Initial states.                                                         *)
(***************************************************************************)
\* can ids at which FindComponentByCanID may report a component
CandidateIds == {3, 16}

\* lines 47-54: the ids found, in the ascending order of range(255)
RECURSIVE Ascending(_)
Ascending(S) ==
    IF S = {} THEN <<>>
    ELSE LET lo == CHOOSE x \in S : \A y \in S : x <= y
         IN <<lo>> \o Ascending(S \ {lo})

\* messages a client puts on the serial line
WireMsgs ==
    { <<27, 17, 2, 21, 160, 16, 254>>,
      <<27, 17, 4, 21, 160, 33, 254>>,
      <<27, 17, 2, 21, 160, 33, 1>>,
      <<27, 17, 3, 2, 6, 33, 1, 13>>,
      <<27, 17, 5, 2, 6, 33, 1>>,
      <<27, 17, 0, 21, 160>> }

\* bytes on the line that are no well-formed frame
RawPieces == { <<DLE, ETX>>, <<DLE, 65>>, <<DLE, STX, 65>>, <<65>> }

Pieces == { encode_can29_message(m) : m \in WireMsgs } \cup RawPieces

RECURSIVE Concat(_)
Concat(ss) == IF ss = <<>> THEN <<>> ELSE Head(ss) \o Concat(Tail(ss))

\* what the line carries: up to n frames or raw pieces, back to back
Streams(n) == { Concat(ps) : ps \in SeqsUpTo(Pieces, n) }

InitCommon ==
    /\ lock = "free"
    /\ rpc = "read"
    /\ rdata = <<>>
    /\ fpc = "next"
    /\ raw_message = <<>>
    /\ enum_i = 0
    /\ error = "none"
    /\ last = [kind |-> "none", byte |-> 0]
    /\ returned = <<>>
    /\ sent = <<>>
    /\ serial_out = <<>>
    /\ cpc = "idle"
    /\ cb_msg = <<>>
    /\ events = 0

(***************************************************************************)
(* The bridge: reader thread, forwarder and monitor thread, with at most   *)
(* one frame or raw piece on the line.                                     *)
(***************************************************************************)
Init ==
    /\ InitCommon
    /\ input_buffer = <<>>
    /\ tx_msgs = <<>>
    /\ stream \in Pieces \cup {<<>>}
    /\ rx_pos = 0
    /\ Simulated \in BOOLEAN
    /\ device_ids \in { Ascending(S) : S \in SUBSET CandidateIds }

Next ==
    \/ data_received_enter
    \/ data_received_extend
    \/ next_enter
    \/ next_scan
    \/ forward_message
    \/ enum_write
    \/ idle_sleep
    \/ m_Monitor_MonitorASCII
    \/ msg_cb_write
    \/ msg_cb_lock
    \/ msg_cb_flush

Spec == Init /\ [][Next]_vars

(***************************************************************************)
(* The inbound path alone: reader thread and forwarder, the backend        *)
(* silent, with up to MaxFrames frames or raw pieces on the line.          *)
(***************************************************************************)
InitInbound ==
    /\ InitCommon
    /\ input_buffer = <<>>
    /\ tx_msgs = <<>>
    /\ stream \in Streams(MaxFrames)
    /\ rx_pos = 0
    /\ Simulated \in BOOLEAN
    /\ device_ids = Ascending(CandidateIds)

NextInbound ==
    \/ data_received_enter
    \/ data_received_extend
    \/ next_enter
    \/ next_scan
    \/ forward_message
    \/ enum_write
    \/ idle_sleep

SpecInbound == InitInbound /\ [][NextInbound]_vars

(***************************************************************************)
(* The decoder alone: the buffer holds all the bytes there will be, and a  *)
(* caller iterates the protocol object, dropping what it returns.          *)
(***************************************************************************)
CodecBytes == {STX, ETX, CR, DLE, 65}

CodecMsgs == SeqsUpTo(CodecBytes, MaxMsgLen)

\* for raw_message in can_input_protocol: pass
drop_message ==
    /\ fpc = "handle"
    /\ fpc' = "next"
    /\ UNCHANGED << input_buffer, lock, reader_vars, raw_message, enum_i,
                    error, last, returned, backend_vars, sent, serial_out,
                    cb_vars >>

\* longest run of arbitrary bytes put after a frame
MaxTail == 2

\* the buffer holds the frame of a message followed by arbitrary bytes, or
\* followed by the frame of a second message or its first k bytes, or it
\* holds arbitrary bytes only
InitCodec ==
    /\ InitCommon
    /\ \/ /\ tx_msgs \in [1..1 -> CodecMsgs]
          /\ \E tail \in SeqsUpTo(CodecBytes, MaxTail) :
                stream = encode_can29_message(tx_msgs[1]) \o tail
       \/ /\ tx_msgs \in [1..2 -> CodecMsgs]
          /\ \E k \in 1..Len(encode_can29_message(tx_msgs[2])) :
                stream = encode_can29_message(tx_msgs[1])
                            \o Take(encode_can29_message(tx_msgs[2]), k)
       \/ /\ tx_msgs = <<>>
          /\ stream \in SeqsUpTo(CodecBytes, MaxBufLen)
    /\ input_buffer = stream
    /\ rx_pos = Len(stream)
    /\ Simulated = FALSE
    /\ device_ids = <<>>

NextCodec ==
    \/ next_enter
    \/ next_scan
    \/ drop_message
    \/ idle_sleep

SpecCodec == InitCodec /\ [][NextCodec]_vars

(***************************************************************************)
(* Vocabulary of the claims, stated on the bytes and not on the scan.      *)
(***************************************************************************)
\* the number of consecutive DLE bytes that end just before position j
DleRun(buf, j) ==
    CHOOSE n \in 0..(j - 1) :
        /\ \A k \in (j - n)..(j - 1) : buf[k] = DLE
        /\ (j - n - 1 = 0 \/ buf[j - n - 1] # DLE)

\* position j follows an escape marker: the DLE before it is not itself the
\* second byte of a DLE DLE pair
Escaped(buf, j) == j \in 1..Len(buf) /\ DleRun(buf, j) % 2 = 1

\* DLE c, with c at position j
PairAt(buf, j, c) == Escaped(buf, j) /\ buf[j] = c

\* an escape marker followed by a byte that no escape pair has
BadEscapeAt(buf, j) == Escaped(buf, j) /\ buf[j] \notin {STX, ETX, CR, DLE}

\* m holds DLE STX or DLE ETX as raw content
HasRawDelimiter(m) ==
    \E k \in 1..(Len(m) - 1) : m[k] = DLE /\ m[k + 1] \in {STX, ETX}

(***************************************************************************)
(* C1.  Round trip: for every byte sequence m without DLE STX / DLE ETX as *)
(* raw content, the empty one and those holding 0x10 or 0x0d included, a   *)
(* decode of a buffer that holds exactly encode(m) returns m: the first    *)
(* pass returns m, and nothing else is ever returned.                      *)
(***************************************************************************)
C1_RoundTrip ==
    \A m \in {tx_msgs[k] : k \in 1..Len(tx_msgs)} :
        (~HasRawDelimiter(m) /\ stream = encode_can29_message(m)) =>
            /\ last.kind \in {"none", "msg", "stop"}
            /\ (last.kind # "none" => returned = << m >>)
            /\ (fpc = "handle" => raw_message = m)

C1_Witness ==
    /\ stream = encode_can29_message(<< DLE, CR >>)
    /\ fpc = "handle"
    /\ raw_message = << DLE, CR >>
    /\ input_buffer = << >>

(***************************************************************************)
(* C3.  A pass that exhausts the buffer without completing a frame (no     *)
(* DLE ETX pair, no malformed escape) ends the decode call with 'no        *)
(* complete message available' and hands control back to the forwarder     *)
(* loop, also when the buffer holds the start of a frame.                  *)
(***************************************************************************)
ExhaustedWithoutFrame(buf) ==
    \A j \in 1..Len(buf) : ~PairAt(buf, j, ETX) /\ ~BadEscapeAt(buf, j)

C3_ExhaustedSignalsStop ==
    [][ (fpc = "scan" /\ fpc' # "scan" /\ ExhaustedWithoutFrame(input_buffer)) =>
            (fpc' = "sleep" /\ last'.kind = "stop") ]_vars

(***************************************************************************)
(* C4.  Partial frame persistence: a decode call that returns a message    *)
(* removes from the front of the buffer exactly the bytes up to and        *)
(* including the DLE ETX of the first complete frame, and the bytes after  *)
(* it stay as they are; a buffer of one frame followed by a truncated      *)
(* second frame yields exactly one message and is left holding the         *)
(* truncated bytes.                                                        *)
(***************************************************************************)
C4_ReturnCutsFirstFrame ==
    (fpc = "scan" /\ fpc' = "handle") =>
        \E j \in 1..Len(input_buffer) :
            /\ PairAt(input_buffer, j, ETX)
            /\ \A h \in 1..(j - 1) : ~PairAt(input_buffer, h, ETX)
            /\ \E h \in 1..(j - 1) : PairAt(input_buffer, h, STX)
            /\ input_buffer' = Drop(input_buffer, j)

C4_FrameThenTruncated ==
    Len(tx_msgs) = 2 =>
        LET m1 == tx_msgs[1]
            f2 == encode_can29_message(tx_msgs[2])
        IN \A k \in 0..(Len(f2) - 1) :
               stream = encode_can29_message(m1) \o Take(f2, k) =>
                   /\ returned \in { << >>, << m1 >> }
                   /\ (returned = << m1 >> => input_buffer = Take(f2, k))

C4_PartialFramePersistence ==
    [][C4_ReturnCutsFirstFrame /\ C4_FrameThenTruncated']_vars

C4_Witness ==
    /\ stream = encode_can29_message(<< CR >>) \o << DLE, STX, 65 >>
    /\ returned = << << CR >> >>
    /\ input_buffer = << DLE, STX, 65 >>
    /\ last.kind = "retry"

(***************************************************************************)
(* C5.  Multi-frame buffer: with encode(m1) followed by encode(m2) in the  *)
(* buffer, successive decode calls return m1 and then m2, the buffer is    *)
(* empty afterwards, and a further call signals 'no complete message'.     *)
(***************************************************************************)
C5_MultiFrame ==
    Len(tx_msgs) = 2 =>
        LET m1 == tx_msgs[1]
            m2 == tx_msgs[2]
        IN stream = encode_can29_message(m1) \o encode_can29_message(m2) =>
               /\ last.kind \in {"none", "msg", "stop"}
               /\ returned \in { << >>, << m1 >>, << m1, m2 >> }
               /\ (last.kind = "none" => returned = << >>)
               /\ (last.kind = "msg" => returned # << >>)
               /\ (last.kind = "stop" => returned = << m1, m2 >>)
               /\ (returned = << m1 >> => input_buffer = encode_can29_message(m2))
               /\ (returned = << m1, m2 >> => input_buffer = << >>)

C5_Witness ==
    /\ stream = encode_can29_message(<< DLE >>) \o encode_can29_message(<< CR, 65 >>)
    /\ returned = << << DLE >>, << CR, 65 >> >>
    /\ last.kind = "stop"
    /\ fpc = "sleep"

(***************************************************************************)
(* C6.  Malformed escape.  As claimed: a decode call on a buffer in which  *)
(* a DLE is followed by a byte outside {0x02, 0x03, 0x0d, 0x10} ends with  *)
(* a framing error naming that byte and returns no message.                *)
(***************************************************************************)
C6_AnyBadEscapeRaises ==
    [][ (fpc = "scan" /\ fpc' # "scan"
            /\ \E j \in 1..Len(input_buffer) : BadEscapeAt(input_buffer, j)) =>
            /\ fpc' = "crashed"
            /\ error' = "RuntimeError"
            /\ last'.kind = "error"
            /\ \E j \in 1..Len(input_buffer) :
                   BadEscapeAt(input_buffer, j) /\ last'.byte = input_buffer[j]
            /\ returned' = returned ]_vars

(***************************************************************************)
(* C6, amended.  A decode call on a buffer in which such a malformed       *)
(* escape comes before any DLE ETX pair ends with a framing error naming   *)
(* the byte of the first malformed escape and returns no message.          *)
(***************************************************************************)
FirstBadEscapeAt(buf, j) ==
    /\ BadEscapeAt(buf, j)
    /\ \A h \in 1..(j - 1) : ~BadEscapeAt(buf, h) /\ ~PairAt(buf, h, ETX)

C6_BadEscapeBeforeEtxRaises ==
    [][ \A j \in 1..Len(input_buffer) :
            (fpc = "scan" /\ fpc' # "scan" /\ FirstBadEscapeAt(input_buffer, j)) =>
                /\ fpc' = "crashed"
                /\ error' = "RuntimeError"
                /\ last' = [kind |-> "error", byte |-> input_buffer[j]]
                /\ returned' = returned ]_vars

C6_Witness ==
    /\ stream = << DLE, STX, 65, DLE, 65 >>
    /\ fpc = "crashed"
    /\ error = "RuntimeError"
    /\ last = [kind |-> "error", byte |-> 65]
    /\ returned = << >>

(***************************************************************************)
(* Vocabulary of the forwarder claims.                                     *)
(***************************************************************************)
\* the find-devices request that the emulation answers
Triggers(m) ==
    /\ Simulated
    /\ Len(m) >= 7
    /\ m[4] = 21 /\ m[5] = 160 /\ m[7] = 254

\* the messages whose turn of the loop body is over
Handled ==
    IF fpc \in {"handle", "enum"} THEN Take(returned, Len(returned) - 1)
    ELSE returned

\* the bytes of the rt.write calls of one writer, in order
WritesOf(who) ==
    LET w == SelectSeq(serial_out, LAMBDA x : x.by = who)
    IN [k \in 1..Len(w) |-> w[k].data]

\* the replies the emulation owes to request m, as frames
RepliesTo(m) ==
    [k \in 1..Len(device_ids) |->
        encode_can29_message(
            << m[2], m[1], 4, IF k = Len(device_ids) THEN 9 ELSE 5,
               m[5], m[6], m[7], device_ids[k], 3 >>)]

RECURSIVE RepliesToAll(_)
RepliesToAll(ms) ==
    IF ms = <<>> THEN <<>>
    ELSE (IF Triggers(Head(ms)) THEN RepliesTo(Head(ms)) ELSE <<>>)
            \o RepliesToAll(Tail(ms))

\* the backend call that passes message m through unchanged
PassedThrough(m) ==
    [ type |-> "CAN29", dest |-> m[1], src |-> m[2], class |-> m[4],
      number |-> m[5], proc_id |-> m[6], sub_nr |-> m[7],
      data |-> Drop(m, 7) ]

(***************************************************************************)
(* C2.  Outbound relay: what is written to the serial output for a message *)
(* m that the backend's callback delivers is the frame encode(m), never    *)
(* the unframed bytes of m.                                                *)
(***************************************************************************)
C2_OutboundFramed ==
    cpc \in {"lock", "flush"} =>
        LET w == WritesOf("callback")
        IN Len(w) > 0 /\ w[Len(w)] = encode_can29_message(cb_msg)

(***************************************************************************)
(* C7.  Enumeration emulation: for every find-devices request decoded      *)
(* while the backend is simulated, the forwarder writes exactly one        *)
(* frame-encoded reply per registered device id, in the order of the       *)
(* device list, reply i being                                              *)
(* [src, dest, 0x04, c, cmd_number, proc_id, sub_nr, d_i, 3] with c = 0x09 *)
(* for the last reply and 0x05 before; it writes nothing else.             *)
(***************************************************************************)
C7_EnumerationReplies ==
    WritesOf("forwarder") =
        RepliesToAll(Handled)
          \o (IF fpc = "enum"
              THEN Take(RepliesTo(returned[Len(returned)]), enum_i)
              ELSE <<>>)

C7_Witness ==
    /\ Simulated
    /\ device_ids = << 3, 16 >>
    /\ returned = << << 27, 17, 2, 21, 160, 16, 254 >> >>
    /\ fpc = "sleep"
    /\ WritesOf("forwarder") =
         << << 16, 2, 17, 27, 4, 5, 160, 16, 16, 254, 3, 3, 16, 3 >>,
            << 16, 2, 17, 27, 4, 9, 160, 16, 16, 254, 16, 16, 3, 16, 3 >> >>
    /\ Len(serial_out) = 3

(***************************************************************************)
(* C8.  A message that triggers the emulation is never passed to the       *)
(* backend's send operation, whatever the device registry, the empty one   *)
(* included: no backend call carries a find-devices request while the      *)
(* backend is simulated, and there are no more backend calls than decoded  *)
(* messages that do not trigger.                                           *)
(***************************************************************************)
C8_InterceptedNotForwarded ==
    /\ \A k \in 1..Len(sent) :
          ~(Simulated /\ sent[k].class = 21 /\ sent[k].number = 160
                      /\ sent[k].sub_nr = 254)
    /\ Len(sent) <= Cardinality({k \in 1..Len(returned) : ~Triggers(returned[k])})

C8_Witness ==
    /\ Simulated
    /\ device_ids = << >>
    /\ returned = << << 27, 17, 2, 21, 160, 16, 254 >> >>
    /\ fpc = "sleep"
    /\ sent = << >>
    /\ WritesOf("forwarder") = << >>

(***************************************************************************)
(* C9.  Pass-through.  As claimed: every decoded message that does not     *)
(* trigger interception is sent to the backend with dest = byte 0,         *)
(* src = byte 1, cmd_class = byte 3, cmd_number = byte 4, proc_id =        *)
(* byte 5, sub_nr = byte 6 and payload = bytes 7..end, and no synthetic    *)
(* reply is written for it.  The fields are those of a message that has    *)
(* its seven header bytes.                                                 *)
(***************************************************************************)
\* the forwarder does the loop body's work on raw_message in this step
HandlesMessage == fpc = "handle" /\ fpc' # "handle"

C9_EveryOtherMessageSent ==
    [][ (HandlesMessage /\ Len(raw_message) >= 7 /\ ~Triggers(raw_message)) =>
            /\ sent' = Append(sent, PassedThrough(raw_message))
            /\ serial_out' = serial_out ]_vars

(***************************************************************************)
(* C9, amended.  A decoded message that does not trigger interception and  *)
(* whose length field equals its size less 5 is sent to the backend with   *)
(* every field and the payload unchanged, and the forwarder goes on to the *)
(* next message; no synthetic reply is written for a message that does not *)
(* trigger.                                                                *)
(***************************************************************************)
C9_ValidMessageSent ==
    (HandlesMessage /\ Len(raw_message) >= 7 /\ ~Triggers(raw_message)
        /\ raw_message[3] = Len(raw_message) - 5) =>
            /\ sent' = Append(sent, PassedThrough(raw_message))
            /\ serial_out' = serial_out
            /\ fpc' = "next"

C9_NoReplyUnlessTriggered ==
    (\A k \in 1..Len(returned) : ~Triggers(returned[k])) =>
        WritesOf("forwarder") = << >>

C9_PassThrough ==
    [][C9_ValidMessageSent /\ C9_NoReplyUnlessTriggered']_vars

C9_Witness ==
    /\ ~Simulated
    /\ returned = << << 27, 17, 2, 21, 160, 16, 254 >>,
                     << 27, 17, 3, 2, 6, 33, 1, 13 >> >>
    /\ fpc = "sleep"
    /\ Len(sent) = 2
    /\ sent[1].data = << >>
    /\ sent[2] = [ type |-> "CAN29", dest |-> 27, src |-> 17, class |-> 2,
                   number |-> 6, proc_id |-> 33, sub_nr |-> 1,
                   data |-> << 13 >> ]
    /\ serial_out = << >>

(***************************************************************************)
(* C10.  Length validation: the backend's transmit operation is never      *)
(* invoked for a message whose third byte differs from its size less 5;    *)
(* the message is rejected before any backend call is made for it.         *)
(***************************************************************************)
C10_LengthValidated ==
    [][ sent' # sent =>
            /\ fpc = "handle"
            /\ Len(raw_message) >= 3
            /\ raw_message[3] = Len(raw_message) - 5
            /\ Len(sent') = Len(sent) + 1 ]_vars

C10_Witness ==
    /\ returned = << << 27, 17, 3, 2, 6, 33, 1, 13 >>,
                     << 27, 17, 5, 2, 6, 33, 1 >> >>
    /\ fpc = "crashed"
    /\ error = "AssertionError"
    /\ Len(sent) = 1

(***************************************************************************)
(* The encoder alone: a caller hands encode_can29_message a byte string    *)
(* and puts the result on a line.                                          *)
(***************************************************************************)
\* longest byte string handed to the encoder
MaxEncLen == 3

EncoderInputs == SeqsUpTo(CodecBytes, MaxEncLen)

InitEncoder ==
    /\ InitCommon
    /\ tx_msgs \in [1..1 -> EncoderInputs]
    /\ stream = <<>>
    /\ input_buffer = <<>>
    /\ rx_pos = 0
    /\ Simulated = FALSE
    /\ device_ids = <<>>

encode_call ==
    /\ stream = <<>>
    /\ stream' = encode_can29_message(tx_msgs[1])
    /\ UNCHANGED << input_buffer, lock, tx_msgs, rx_pos, rpc, rdata, fwd_vars,
                    backend_vars, sent, serial_out, cb_vars >>

NextEncoder == encode_call

SpecEncoder == InitEncoder /\ [][NextEncoder]_vars

(***************************************************************************)
(* C11.  Encoder escaping: encode(m) is DLE STX, then each byte c of m in  *)
(* order, with one extra 0x10 immediately before c exactly when c is 0x10  *)
(* or 0x0d, then DLE ETX; m itself is left as it was, and every byte       *)
(* string, the empty one included, is encoded.  Stated by position: byte i *)
(* of m stands at 2 + i + (number of stuffed bytes among the first i), the *)
(* result has no other bytes than these, their markers and the delimiters. *)
(***************************************************************************)
StuffedUpTo(m, i) == Cardinality({ j \in 1..i : m[j] \in {DLE, CR} })

PosOf(m, i) == 2 + i + StuffedUpTo(m, i)

IsEncodingOf(m, e) ==
    /\ Len(e) = Len(m) + StuffedUpTo(m, Len(m)) + 4
    /\ e[1] = DLE /\ e[2] = STX
    /\ e[Len(e) - 1] = DLE /\ e[Len(e)] = ETX
    /\ \A i \in 1..Len(m) :
          /\ e[PosOf(m, i)] = m[i]
          /\ (m[i] \in {DLE, CR} => e[PosOf(m, i) - 1] = DLE)

C11_EncoderEscaping ==
    [][ stream' # stream =>
            /\ tx_msgs' = tx_msgs
            /\ IsEncodingOf(tx_msgs[1], stream') ]_vars

C11_Witness ==
    /\ tx_msgs = << << 65, CR, DLE >> >>
    /\ stream = << DLE, STX, 65, DLE, CR, DLE, DLE, DLE, ETX >>

(***************************************************************************)
(* C12.  Length mismatch is non-fatal: once the forwarder has dealt with   *)
(* an inbound message whose length field disagrees with its size, by       *)
(* rejecting it, the forwarding loop is still running, so that a later     *)
(* message with a correct length field is decoded and sent.                *)
(***************************************************************************)
LengthMismatch(m) == Len(m) >= 3 /\ m[3] # Len(m) - 5

C12_LengthMismatchNonFatal ==
    \A k \in 1..Len(Handled) :
        (LengthMismatch(Handled[k]) /\ ~Triggers(Handled[k])) => Alive

(***************************************************************************)
(* C13.  Framing error is recoverable: a decode attempt that meets a       *)
(* malformed escape (before any DLE ETX pair) leaves the forwarding loop   *)
(* running and the buffer holding only the bytes after the offending one,  *)
(* so that later attempts scan on from there and do not meet the same      *)
(* bytes again.                                                            *)
(***************************************************************************)
C13_FramingErrorRecoverable ==
    [][ \A j \in 1..Len(input_buffer) :
            (fpc = "scan" /\ fpc' # "scan" /\ FirstBadEscapeAt(input_buffer, j)) =>
                /\ Alive'
                /\ input_buffer' = Drop(input_buffer, j) ]_vars

(***************************************************************************)
(* C14.  Stray terminator: a decode attempt on a buffer that holds DLE ETX *)
(* with no message in progress, and right after it a complete frame, goes  *)
(* past the stray delimiter without an error and returns the message of    *)
(* that frame, leaving the bytes after the frame in the buffer.            *)
(***************************************************************************)
StrayEtxThenFrame(buf, m) ==
    LET f == encode_can29_message(m)
    IN /\ Len(buf) >= 2 + Len(f)
       /\ Take(buf, 2) = << DLE, ETX >>
       /\ SubSeq(buf, 3, 2 + Len(f)) = f

C14_StrayTerminatorSkipped ==
    [][ \A m \in WireMsgs :
            (fpc = "scan" /\ fpc' # "scan" /\ StrayEtxThenFrame(input_buffer, m)) =>
                /\ last'.kind = "msg"
                /\ raw_message' = m
                /\ input_buffer' = Drop(input_buffer, 2 + Len(encode_can29_message(m))) ]_vars

(***************************************************************************)
(* C15.  Buffer-lock scope: the input-buffer lock is held by the byte      *)
(* producer exactly while it appends and by the inbound path exactly       *)
(* during a decode attempt, and by nothing else: the backend-callback path *)
(* never holds it, neither while writing nor while flushing the serial     *)
(* output.                                                                 *)
(***************************************************************************)
C15_BufferLockScope ==
    /\ lock \in {"free", "reader", "forwarder"}
    /\ (lock = "reader" <=> rpc = "locked")
    /\ (lock = "forwarder" <=> fpc = "scan")

(***************************************************************************)
(* C16.  The forwarder never holds the input-buffer lock while the         *)
(* backend's send operation executes or a synthetic reply is written:      *)
(* however a decode attempt ends (message returned, 'no complete message', *)
(* framing error, or another round of the scan), the lock has been         *)
(* released, and the steps that call the backend or write a reply are      *)
(* taken without it.                                                       *)
(***************************************************************************)
C16_LockFreeAcrossBackendCall ==
    [][ /\ (lock' = "forwarder" => fpc' = "scan")
        /\ (fpc = "scan" /\ fpc' # "scan" => lock' # "forwarder")
        /\ (sent' # sent \/ WritesOf("forwarder")' # WritesOf("forwarder")) =>
              (lock # "forwarder" /\ lock' # "forwarder") ]_vars

C16_Witness ==
    /\ Len(returned) = 1
    /\ Len(sent) = 1
    /\ fpc = "next"
    /\ lock = "reader"
    /\ last.kind = "msg"

(***************************************************************************)
(* C18.  Frame restart: when a second DLE STX occurs before the DLE ETX of *)
(* a frame in progress, the payload gathered so far is discarded: the      *)
(* message returned at the next DLE ETX consists only of the bytes after   *)
(* the most recent DLE STX, and the buffer is consumed through that        *)
(* DLE ETX, the discarded bytes included.                                  *)
(***************************************************************************)
\* a frame is in progress at position s, where the frame of m starts anew
RestartAt(buf, s, m) ==
    LET f == encode_can29_message(m)
    IN /\ s + 1 <= Len(buf) /\ buf[s] = DLE /\ buf[s + 1] = STX
       /\ s + Len(f) - 1 <= Len(buf)
       /\ SubSeq(buf, s, s + Len(f) - 1) = f
       /\ PairAt(buf, s + 1, STX)
       /\ \E h \in 1..(s - 1) : PairAt(buf, h, STX)
       /\ \A h \in 1..(s - 1) : ~PairAt(buf, h, ETX) /\ ~BadEscapeAt(buf, h)

C18_FrameRestart ==
    [][ (fpc = "scan" /\ fpc' # "scan") =>
          \A m \in WireMsgs : \A s \in 1..Len(input_buffer) :
            RestartAt(input_buffer, s, m) =>
                /\ last'.kind = "msg"
                /\ raw_message' = m
                /\ returned' = Append(returned, m)
                /\ input_buffer' =
                      Drop(input_buffer, s + Len(encode_can29_message(m)) - 1) ]_vars

C18_Witness ==
    /\ stream = << DLE, STX, 65 >>
                   \o encode_can29_message(<< 27, 17, 3, 2, 6, 33, 1, 13 >>)
    /\ returned = << << 27, 17, 3, 2, 6, 33, 1, 13 >> >>
    /\ input_buffer = << >>
    /\ last.kind = "msg"
    /\ fpc = "handle"

(***************************************************************************)
(* C19.  Byte conservation under concurrency: at every moment, under every *)
(* interleaving of the producer's appends with decode attempts, the bytes  *)
(* received so far are the bytes consumed by the successful decode calls   *)
(* followed by the buffer contents: no byte is lost, duplicated or         *)
(* reordered.  The consumed bytes are the received bytes that are no       *)
(* longer in the buffer; that successful calls consumed them means that    *)
(* decoding them anew yields the messages returned so far, with no byte    *)
(* left over.                                                              *)
(***************************************************************************)
\* the bytes data_received has appended so far
Received == Take(stream, rx_pos - Len(rdata))

Consumed == Take(Received, Len(Received) - Len(input_buffer))

\* successive decode calls on buf, as long as each returns a message
RECURSIVE Replay(_)
Replay(buf) ==
    IF buf = << >> THEN [ok |-> TRUE, msgs |-> << >>]
    ELSE LET r == Scan(buf) IN
         IF r.kind # "msg" THEN [ok |-> FALSE, msgs |-> << >>]
         ELSE LET rest == Replay(r.buffer)
              IN [ok |-> rest.ok, msgs |-> << r.msg >> \o rest.msgs]

C19_ByteConservation ==
    /\ Len(input_buffer) <= Len(Received)
    /\ Received = Consumed \o input_buffer
    /\ Replay(Consumed) = [ok |-> TRUE, msgs |-> returned]

(***************************************************************************)
(* The inbound path under fair scheduling, with a client that sends        *)
(* well-formed frames of messages that have their header and a correct     *)
(* length field.  The forwarder keeps taking steps; the reader thread gets *)
(* the lock if it is free again and again, and finishes its append.        *)
(***************************************************************************)
ValidMsgs == { m \in WireMsgs : Len(m) >= 7 /\ m[3] = Len(m) - 5 }

InitFair ==
    /\ InitCommon
    /\ input_buffer = <<>>
    /\ tx_msgs \in SeqsUpTo(ValidMsgs, MaxFrames)
    /\ stream = Concat([k \in 1..Len(tx_msgs) |-> encode_can29_message(tx_msgs[k])])
    /\ rx_pos = 0
    /\ Simulated \in BOOLEAN
    /\ device_ids = Ascending(CandidateIds)

ForwarderStep ==
    \/ next_enter
    \/ next_scan
    \/ forward_message
    \/ enum_write
    \/ idle_sleep

SpecFair ==
    /\ InitFair
    /\ [][NextInbound]_vars
    /\ WF_vars(ForwarderStep)
    /\ SF_vars(data_received_enter)
    /\ WF_vars(data_received_extend)

(***************************************************************************)
(* C20.  In-order, exactly-once handling: for a stream of well-formed      *)
(* frames of messages with valid length fields, delivered in arbitrary     *)
(* fragments, under fair scheduling of producer and forwarder, the         *)
(* messages decoded are at every moment the first ones of the stream, in   *)
(* order, and in the end every frame has been handled exactly once: the    *)
(* backend has been sent the messages that do not trigger the emulation,   *)
(* each once and in stream order, and the serial output has received the   *)
(* replies to those that do, and nothing more.                             *)
(***************************************************************************)
IsPrefix(s, t) == Len(s) <= Len(t) /\ s = Take(t, Len(s))

RECURSIVE PassedThroughAll(_)
PassedThroughAll(ms) ==
    IF ms = <<>> THEN <<>>
    ELSE (IF Triggers(Head(ms)) THEN <<>> ELSE << PassedThrough(Head(ms)) >>)
            \o PassedThroughAll(Tail(ms))

AllHandledOnce ==
    /\ fpc \in {"next", "scan", "sleep"}
    /\ returned = tx_msgs
    /\ input_buffer = <<>>
    /\ sent = PassedThroughAll(tx_msgs)
    /\ WritesOf("forwarder") = RepliesToAll(tx_msgs)

C20_InOrderExactlyOnce ==
    /\ [](IsPrefix(returned, tx_msgs) /\ IsPrefix(sent, PassedThroughAll(tx_msgs)))
    /\ <>[]AllHandledOnce

C20_Witness ==
    /\ Simulated
    /\ tx_msgs = << << 27, 17, 2, 21, 160, 16, 254 >>,
                    << 27, 17, 3, 2, 6, 33, 1, 13 >> >>
    /\ AllHandledOnce
    /\ last.kind = "stop"
    /\ Len(sent) = 1
    /\ Len(serial_out) = 2

====
